---- MODULE Spec2Model ----
(***************************************************************************)
(* Model of the car-service dashboard: the data-cleaning pipeline of       *)
(* script/clean_data.py (clean_price, parse_location_type, get_mysql_type, *)
(* init_database) and the query construction and pagination of            *)
(* script/run_app.py.                                                      *)
(*                                                                         *)
(* Strings are sequences of characters, each character a TLA+ string; the *)
(* Chinese characters of the keyword list are written in pinyin: "fu" is  *)
(* 负, "yi1" 一, "er4" 二, "san1" 三, "di" 地, "xia" 下, "shi" 室,         *)
(* "shang" 上, "lou" 楼.  A cell value of a                                *)
(* data frame is a record tagged by its kind: "null" (None), "nan",        *)
(* "int", "float" (value = halves / 2), "str", or "absent" (the frame has  *)
(* no such column).                                                        *)
(***************************************************************************)
EXTENDS Integers, Sequences, FiniteSets, TLC

VARIABLES
    raw_price, price, price_done,        \* one cell of df['价格'] before / after apply
    address, loc_type, loc_done,         \* one cell of df['地址'] and of df['位置类型']
    column, table_type,                  \* one column of combined_df and its type in the table
    directory,                           \* data_dir: whether it exists and what os.listdir gives
    csv_files, idx,                      \* the eligible files and the loop position
    all_data,                            \* the frames appended so far
    sources,                             \* the files appended so far, as they were read
    last,                                \* what happened to the file processed last
    table,                               \* table dianping_car of the store
    conn,                                \* what init_database returned
    load_pc, error,                      \* position in init_database, exception raised
    selected_city, selected_categories, selected_districts,   \* the filter widgets
    search_clicked,                      \* the search button in the last run
    session_state,                       \* st.session_state
    viz_query, count_query, page_query, page_params,   \* queries of the last run
    total_records, total_pages, df,      \* results of the last run
    page_input_error                     \* the page number_input rejected its arguments

priceVars == <<raw_price, price, price_done>>
locVars == <<address, loc_type, loc_done>>
schemaVars == <<column, table_type>>
loadVars == <<directory, csv_files, idx, all_data, sources, last, table, conn,
              load_pc, error>>
appVars == <<selected_city, selected_categories, selected_districts, search_clicked,
             session_state, viz_query, count_query, page_query, page_params,
             total_records, total_pages, df, page_input_error>>
vars == <<priceVars, locVars, schemaVars, loadVars, appVars>>

(***************************************************************************)
(* Cell values                                                             *)
(***************************************************************************)
Null == [kind |-> "null"]
NaN == [kind |-> "nan"]
Absent == [kind |-> "absent"]
IntV(n) == [kind |-> "int", val |-> n]
FloatV(h) == [kind |-> "float", halves |-> h]
StrV(s) == [kind |-> "str", chars |-> s]

\* Sequences over S of length at most n.
SeqUpTo(S, n) == UNION {[1..k -> S] : k \in 0..n}

Min(S) == CHOOSE x \in S : \A y \in S : x <= y

(***************************************************************************)
(* clean_price                                                             *)
(***************************************************************************)
Digits == <<"0", "1", "2", "3", "4", "5", "6", "7", "8", "9">>

IsDigit(c) == \E d \in 1..Len(Digits) : Digits[d] = c

DigitVal(c) == (CHOOSE d \in 1..Len(Digits) : Digits[d] = c) - 1

\* int(text) for a non-empty string of digits
RECURSIVE int(_)
int(text) ==
    IF Len(text) = 0 THEN 0
    ELSE 10 * int(SubSeq(text, 1, Len(text) - 1)) + DigitVal(text[Len(text)])

\* the greedy \d+ starting at position i: the index just past the run
RECURSIVE RunEnd(_, _)
RunEnd(s, i) ==
    IF i <= Len(s) /\ IsDigit(s[i]) THEN RunEnd(s, i + 1) ELSE i

\* re.search(r':(\d+)', s): group(1) of the leftmost match, <<>> when no match
SearchColonNumber(s) ==
    LET hits == {i \in 1..(Len(s) - 1) : s[i] = ":" /\ IsDigit(s[i + 1])}
    IN  IF hits = {} THEN <<>>
        ELSE LET i == Min(hits) IN SubSeq(s, i + 1, RunEnd(s, i + 1) - 1)

\* a variant of FirstNumber matching \d instead of \d+ (one digit only)
FirstDigit(s) ==
    LET hits == {i \in 1..Len(s) : IsDigit(s[i])}
    IN  IF hits = {} THEN <<>>
        ELSE LET i == Min(hits) IN SubSeq(s, i, i)

\* re.findall(r'\d+', s)[0]: the leftmost maximal digit run, <<>> when none
FirstNumber(s) ==
    LET hits == {i \in 1..Len(s) : IsDigit(s[i])}
    IN  IF hits = {} THEN <<>>
        ELSE LET i == Min(hits) IN SubSeq(s, i, RunEnd(s, i) - 1)

isna(v) == v.kind \in {"null", "nan"}

\* a variant of clean_price that extracts the first digit run before trying the
\* "label:number" pattern
clean_price_digits_first(p) ==
    IF isna(p) THEN Null
    ELSE IF p.kind \in {"int", "float"} THEN p
    ELSE IF p.kind = "str" THEN
        LET match == SearchColonNumber(p.chars)
            numbers == FirstNumber(p.chars)
        IN  IF numbers # <<>> THEN IntV(int(numbers))
            ELSE IF match # <<>> THEN IntV(int(match))
            ELSE Null
    ELSE Null

clean_price(p) ==
    IF isna(p) THEN Null
    ELSE IF p.kind \in {"int", "float"} THEN p
    ELSE IF p.kind = "str" THEN
        LET match == SearchColonNumber(p.chars)
            numbers == FirstNumber(p.chars)
        IN  IF match # <<>> THEN IntV(int(match))
            ELSE IF numbers # <<>> THEN IntV(int(numbers))
            ELSE Null
    ELSE Null

(***************************************************************************)
(* parse_location_type                                                     *)
(***************************************************************************)
UpperCase == <<"A", "B", "C", "D", "E", "F", "G", "H", "I", "J", "K", "L", "M",
               "N", "O", "P", "Q", "R", "S", "T", "U", "V", "W", "X", "Y", "Z">>
LowerCase == <<"a", "b", "c", "d", "e", "f", "g", "h", "i", "j", "k", "l", "m",
               "n", "o", "p", "q", "r", "s", "t", "u", "v", "w", "x", "y", "z">>

LowerChar(c) ==
    IF \E k \in 1..Len(UpperCase) : UpperCase[k] = c
    THEN LowerCase[CHOOSE k \in 1..Len(UpperCase) : UpperCase[k] = c]
    ELSE c

\* str.lower()
lower(s) == [i \in 1..Len(s) |-> LowerChar(s[i])]

\* keyword in text
Contains(text, keyword) ==
    \E i \in 1..(Len(text) - Len(keyword) + 1) :
        SubSeq(text, i, i + Len(keyword) - 1) = keyword

underground_keywords == <<
    <<"b", "1">>, <<"b", "2">>, <<"b", "3">>, <<"b", "4">>,
    <<"fu", "yi1">>, <<"fu", "er4">>, <<"fu", "san1">>,
    <<"fu", "1">>, <<"fu", "2">>, <<"fu", "3">>,
    <<"di", "xia", "yi1">>, <<"di", "xia", "er4">>, <<"di", "xia", "san1">>,
    <<"di", "xia", "1">>, <<"di", "xia", "2">>, <<"di", "xia", "3">>,
    <<"di", "xia", "shi">>, <<"di", "xia">> >>

Underground == StrV(<<"di", "xia">>)
AboveGround == StrV(<<"di", "shang">>)

\* str(address): a text cell is its own text (a numeric cell would print as digits)
str(v) == IF v.kind = "str" THEN v.chars ELSE <<"0">>

\* a variant of parse_location_type that omits .lower()
parse_location_type_case_sensitive(a) ==
    IF isna(a) THEN Null
    ELSE LET text == str(a)
         IN  IF \E k \in 1..Len(underground_keywords) :
                    Contains(text, underground_keywords[k])
             THEN Underground
             ELSE AboveGround

parse_location_type(a) ==
    IF isna(a) THEN Null
    ELSE LET text == lower(str(a))
         IN  IF \E k \in 1..Len(underground_keywords) :
                    Contains(text, underground_keywords[k])
             THEN Underground
             ELSE AboveGround

(***************************************************************************)
(* Bounds and input samples                                                *)
(***************************************************************************)
MaxPriceLen == 4
MaxAddrLen == 3
MaxNum == 2

PriceChars == {":", "a", "0", "7"}
AddrChars == {"B", "b", "1", "5", "fu", "yi1", "di", "xia", "lou"}

PriceInputs ==
    {Null, NaN}
    \cup {IntV(n) : n \in (0 - MaxNum)..MaxNum}
    \cup {FloatV(h) : h \in (0 - MaxNum)..MaxNum}
    \cup {StrV(s) : s \in SeqUpTo(PriceChars, MaxPriceLen)}

AddrInputs ==
    {Absent, Null, NaN} \cup {StrV(s) : s \in SeqUpTo(AddrChars, MaxAddrLen)}

(***************************************************************************)
(* The price column of a loaded frame: df['价格'].apply(clean_price)       *)
(***************************************************************************)
PriceIdle ==
    /\ raw_price = Absent
    /\ price = Absent
    /\ price_done = FALSE

PriceInit ==
    /\ raw_price \in PriceInputs \cup {Absent}
    /\ price = raw_price
    /\ price_done = FALSE

\* if '价格' in df.columns: df['价格'] = df['价格'].apply(clean_price)
CleanPriceColumn ==
    /\ ~price_done
    /\ price' = IF price.kind = "absent" THEN price ELSE clean_price(price)
    /\ price_done' = TRUE
    /\ UNCHANGED <<raw_price, locVars, schemaVars, loadVars, appVars>>

(***************************************************************************)
(* The derived column: df['位置类型'] = df['地址'].apply(...)              *)
(***************************************************************************)
LocIdle ==
    /\ address = Absent
    /\ loc_type = Absent
    /\ loc_done = FALSE

LocInit ==
    /\ address \in AddrInputs
    /\ loc_type = Absent
    /\ loc_done = FALSE

\* if '地址' in df.columns: df['位置类型'] = df['地址'].apply(parse_location_type)
ParseLocationColumn ==
    /\ ~loc_done
    /\ loc_type' = IF address.kind = "absent" THEN loc_type
                   ELSE parse_location_type(address)
    /\ loc_done' = TRUE
    /\ UNCHANGED <<address, priceVars, schemaVars, loadVars, appVars>>

(***************************************************************************)
(* get_mysql_type and the types of the created table                       *)
(***************************************************************************)
\* column names, in pinyin: 价格, 评分, 星级, 评论数, 点评数, 服务评分, 环境评分
column_type_mapping == {"jiage", "pingfen", "xingji", "pinglunshu", "dianpingshu",
                        "fuwupingfen", "huanjingpingfen"}

get_mysql_type(column_name, dtype) ==
    IF column_name \in column_type_mapping THEN "INTEGER"
    ELSE IF dtype = "int64" THEN "INTEGER"
    ELSE IF dtype = "float64" THEN "REAL"
    ELSE IF dtype = "datetime64" THEN "TEXT"
    ELSE "TEXT"

\* the column type combined_df.to_sql(...) gives a column when no dtype argument
\* is passed: it depends on the column's values alone
to_sql_type(dtype) ==
    IF dtype \in {"int64", "bool"} THEN "INTEGER"
    ELSE IF dtype = "float64" THEN "REAL"
    ELSE IF dtype = "datetime64" THEN "TIMESTAMP"
    ELSE "TEXT"

ColumnNames == column_type_mapping
    \cup {"id", "name", "lng", "lat", "shi", "qu", "sanlei", "dizhi", "weizhileixing"}
DTypes == {"int64", "float64", "datetime64", "bool", "object"}

SchemaIdle ==
    /\ column = [name |-> "id", dtype |-> "int64"]
    /\ table_type = ""

SchemaInit ==
    /\ column \in [name : ColumnNames, dtype : DTypes]
    /\ table_type = ""

\* combined_df.to_sql('dianping_car', conn, if_exists='replace', index=False)
CreateTableColumn ==
    /\ table_type = ""
    /\ table_type' = to_sql_type(column.dtype)
    /\ UNCHANGED <<column, priceVars, locVars, loadVars, appVars>>

(***************************************************************************)
(* init_database                                                           *)
(***************************************************************************)
MaxFiles == 2
MaxRows == 2

Frame(hp, ha, hl, rows) ==
    [has_price |-> hp, has_address |-> ha, has_loc |-> hl, rows |-> rows]

EmptyFrame == Frame(FALSE, FALSE, FALSE, <<>>)

\* rows a file may hold (price cell, address cell)
RowSamples == {
    [price |-> StrV(<<"a", ":", "7">>), address |-> StrV(<<"B", "1">>)],
    [price |-> IntV(0 - 1), address |-> Null] }

Extensions == {<<".", "c", "s", "v">>, <<".", "C", "S", "V">>, <<".", "t", "x", "t">>}

\* the i-th entry of a listing is named by the digit i and an extension
Listings ==
    UNION {{[i \in 1..n |-> <<Digits[i + 1]>> \o e[i]] : e \in [1..n -> Extensions]}
           : n \in 0..MaxFiles}

\* what pd.read_csv(file_path) may return for a file
FramesOnDisk ==
    {Frame(hp, ha, FALSE,
           [i \in 1..Len(rs) |->
               [price |-> IF hp THEN rs[i].price ELSE Absent,
                address |-> IF ha THEN rs[i].address ELSE Absent,
                loc_type |-> Absent]]) :
        hp \in BOOLEAN, ha \in BOOLEAN, rs \in SeqUpTo(RowSamples, MaxRows)}

ReadOutcomes == {"ok", "UnicodeDecodeError", "OtherError"}

\* a variant of endswith that ignores letter case
endswith_ignorecase(f, suffix) ==
    /\ Len(f) >= Len(suffix)
    /\ lower(SubSeq(f, Len(f) - Len(suffix) + 1, Len(f))) = lower(suffix)

\* f.endswith(suffix)
endswith(f, suffix) ==
    /\ Len(f) >= Len(suffix)
    /\ SubSeq(f, Len(f) - Len(suffix) + 1, Len(f)) = suffix

RECURSIVE SelectCsv(_)
SelectCsv(names) ==
    IF names = <<>> THEN <<>>
    ELSE (IF endswith(Head(names), <<".", "c", "s", "v">>) THEN <<Head(names)>> ELSE <<>>)
         \o SelectCsv(Tail(names))

\* a variant of ReadAttempts without the gbk fallback
ReadAttemptsNoFallback(utf8, gbk) ==
    << [encoding |-> "utf-8", outcome |-> utf8] >>

\* the reads of one file: utf-8 first, gbk only after a UnicodeDecodeError
ReadAttempts(utf8, gbk) ==
    IF utf8 = "UnicodeDecodeError"
    THEN << [encoding |-> "utf-8", outcome |-> utf8], [encoding |-> "gbk", outcome |-> gbk] >>
    ELSE << [encoding |-> "utf-8", outcome |-> utf8] >>

\* lines 105-110: the price column cleaned, the location type derived
CleanFrame(frame) ==
    Frame(frame.has_price, frame.has_address, frame.has_address \/ frame.has_loc,
          [i \in 1..Len(frame.rows) |->
              [price |-> IF frame.has_price THEN clean_price(frame.rows[i].price)
                         ELSE frame.rows[i].price,
               address |-> frame.rows[i].address,
               loc_type |-> IF frame.has_address
                            THEN parse_location_type(frame.rows[i].address)
                            ELSE frame.rows[i].loc_type]])

\* a variant of Flatten that keeps only the first copy of a repeated row
RECURSIVE FlattenUnique(_)
FlattenUnique(frames) ==
    IF frames = <<>> THEN <<>>
    ELSE LET before == FlattenUnique(SubSeq(frames, 1, Len(frames) - 1))
             seen == {before[i] : i \in 1..Len(before)}
             rows == frames[Len(frames)].rows
             RECURSIVE Fresh(_, _)
             Fresh(i, known) ==
                 IF i > Len(rows) THEN <<>>
                 ELSE IF rows[i] \in known THEN Fresh(i + 1, known)
                 ELSE <<rows[i]>> \o Fresh(i + 1, known \cup {rows[i]})
         IN  before \o Fresh(1, seen)

RECURSIVE Flatten(_)
Flatten(frames) ==
    IF frames = <<>> THEN <<>> ELSE Head(frames).rows \o Flatten(Tail(frames))

\* a cell of a column that the row's own frame lacks is filled with NaN
FillCell(cell, in_union) == IF cell.kind = "absent" /\ in_union THEN NaN ELSE cell

\* pd.concat(frames, ignore_index=True)
pd_concat(frames) ==
    LET hp == \E k \in 1..Len(frames) : frames[k].has_price
        ha == \E k \in 1..Len(frames) : frames[k].has_address
        hl == \E k \in 1..Len(frames) : frames[k].has_loc
        rows == Flatten(frames)
    IN  Frame(hp, ha, hl,
              [i \in 1..Len(rows) |->
                  [price |-> FillCell(rows[i].price, hp),
                   address |-> FillCell(rows[i].address, ha),
                   loc_type |-> FillCell(rows[i].loc_type, hl)]])

NoLast == [file |-> <<>>, reads |-> <<>>, clean_error |-> FALSE, loaded |-> FALSE]

LoadIdle ==
    /\ directory = [exists |-> FALSE, names |-> <<>>]
    /\ csv_files = <<>>
    /\ idx = 1
    /\ all_data = <<>>
    /\ sources = <<>>
    /\ last = NoLast
    /\ table = [created |-> FALSE, frame |-> EmptyFrame]
    /\ conn = "none"
    /\ load_pc = "idle"
    /\ error = ""

LoadInit ==
    /\ directory \in {[exists |-> FALSE, names |-> <<>>]}
                     \cup {[exists |-> TRUE, names |-> l] : l \in Listings}
    /\ csv_files = <<>>
    /\ idx = 1
    /\ all_data = <<>>
    /\ sources = <<>>
    /\ last = NoLast
    /\ table = [created |-> FALSE, frame |-> EmptyFrame]
    /\ conn = "none"
    /\ load_pc = "list"
    /\ error = ""

\* lines 85-91: connect, list the directory, keep the names ending in .csv
ListFiles ==
    /\ load_pc = "list"
    /\ IF ~directory.exists
       THEN /\ load_pc' = "raised"
            /\ error' = "FileNotFoundError"
            /\ UNCHANGED csv_files
       ELSE /\ csv_files' = SelectCsv(directory.names)
            /\ IF SelectCsv(directory.names) = <<>>
               THEN load_pc' = "raised" /\ error' = "FileNotFoundError"
               ELSE load_pc' = "loop" /\ UNCHANGED error
    /\ UNCHANGED <<directory, idx, all_data, sources, last, table, conn>>
    /\ UNCHANGED <<priceVars, locVars, schemaVars, appVars>>

\* lines 95-120: one iteration of the loop over csv_files
LoadFile ==
    /\ load_pc = "loop"
    /\ idx <= Len(csv_files)
    /\ \E utf8 \in ReadOutcomes, gbk \in ReadOutcomes, frame \in FramesOnDisk,
          clean_error \in BOOLEAN :
          LET reads == ReadAttempts(utf8, gbk)
              read_ok == reads[Len(reads)].outcome = "ok"
              loaded == read_ok /\ ~clean_error
          IN  \* inputs that are never looked at are fixed: the gbk outcome when
              \* utf-8 did not raise UnicodeDecodeError, the frame when no read
              \* succeeded; cleaning can only raise on a price column
              /\ utf8 # "UnicodeDecodeError" => gbk = "ok"
              /\ ~read_ok => frame = EmptyFrame
              /\ clean_error => (read_ok /\ frame.has_price)
              /\ last' = [file |-> csv_files[idx], reads |-> reads,
                          clean_error |-> clean_error, loaded |-> loaded]
              /\ IF loaded
                 THEN /\ all_data' = Append(all_data, CleanFrame(frame))
                      /\ sources' = Append(sources, [file |-> csv_files[idx], raw |-> frame])
                 ELSE UNCHANGED <<all_data, sources>>
    /\ idx' = idx + 1
    /\ UNCHANGED <<directory, csv_files, table, conn, load_pc, error>>
    /\ UNCHANGED <<priceVars, locVars, schemaVars, appVars>>

\* lines 122-153: concatenate, write the table, inspect it, return the connection
FinishLoad ==
    /\ load_pc = "loop"
    /\ idx > Len(csv_files)
    /\ IF all_data = <<>>
       THEN /\ load_pc' = "raised"
            /\ error' = "ValueError"
            /\ UNCHANGED <<table, conn>>
       ELSE /\ table' = [created |-> TRUE, frame |-> pd_concat(all_data)]
            /\ IF pd_concat(all_data).has_loc
               THEN load_pc' = "returned" /\ conn' = "conn" /\ UNCHANGED error
               ELSE load_pc' = "raised" /\ error' = "OperationalError" /\ UNCHANGED conn
    /\ UNCHANGED <<directory, csv_files, idx, all_data, sources, last>>
    /\ UNCHANGED <<priceVars, locVars, schemaVars, appVars>>

(***************************************************************************)
(* run_app.py: the filter widgets, the confirmed search, the queries       *)
(***************************************************************************)
PageSize == 100
TableSize == 230

\* The rows of dianping_car in insertion order.  Cities c1 and c2, categories
\* k1 and k2, districts d1 and d2 (in c1) and d3 (in c2); no row of c2 has
\* category k1.  Column names in pinyin: shi 市, sanlei 三类, qu 区.
TableRow(i) ==
    [id |-> TableSize + 1 - i,
     shi |-> IF i % 8 = 0 THEN "c2" ELSE "c1",
     sanlei |-> IF i % 2 = 1 THEN "k1" ELSE "k2",
     qu |-> IF i % 8 = 0 THEN "d3" ELSE IF i % 3 = 0 THEN "d2" ELSE "d1"]

dianping_car == [i \in 1..TableSize |-> TableRow(i)]

\* ORDER BY id: rows with equal ids stay in insertion order
OrderById(rows) ==
    LET n == Len(rows)
        rank == [i \in 1..n |->
                    1 + Cardinality({j \in 1..n :
                            \/ rows[j].id < rows[i].id
                            \/ rows[j].id = rows[i].id /\ j < i})]
    IN  [k \in 1..n |-> rows[CHOOSE i \in 1..n : rank[i] = k]]

dianping_car_by_id == OrderById(dianping_car)

Range(f) == {f[i] : i \in DOMAIN f}

\* get_filter_options, get_districts_for_city
cities == {dianping_car[i].shi : i \in 1..TableSize}
categories == {dianping_car[i].sanlei : i \in 1..TableSize}
get_districts_for_city(city) ==
    {dianping_car[i].qu : i \in {r \in 1..TableSize : dianping_car[r].shi = city}}

\* what a multiselect over the given options can return: the chosen options in
\* the order they were chosen
Selections(options) ==
    {sel \in SeqUpTo(options, Cardinality(options)) :
        \A i \in 1..Len(sel) : \A j \in 1..Len(sel) : i # j => sel[i] # sel[j]}

\* ','.join(['?' for _ in selected])
RECURSIVE Placeholders(_)
Placeholders(n) ==
    IF n = 0 THEN <<>>
    ELSE IF n = 1 THEN <<"?">>
    ELSE <<"?", ",">> \o Placeholders(n - 1)

\* a variant of CityCondition that writes the city into the SQL text
CityConditionInline(city) == <<"shi", "=", city>>

\* "市 = ?"
CityCondition(city) == <<"shi", "=", "?">>

\* f"三类 IN ({placeholders})", f"区 IN ({placeholders})"
InCondition(col, selected) == <<col, "IN", "(">> \o Placeholders(Len(selected)) \o <<")">>

\* " AND ".join(conditions)
RECURSIVE JoinAnd(_)
JoinAnd(conditions) ==
    IF conditions = <<>> THEN <<>>
    ELSE IF Len(conditions) = 1 THEN conditions[1]
    ELSE conditions[1] \o <<"AND">> \o JoinAnd(Tail(conditions))

NoQuery == [sql |-> <<>>, params |-> <<>>]

\* lines 381-394
VizQuery(conditions, params) ==
    [sql |-> <<"SELECT", "name", "lng", "lat", "jiage", "pingfen", "xingji",
               "weizhileixing", "FROM", "dianping_car", "WHERE">> \o JoinAnd(conditions),
     params |-> params]

\* lines 603-610
CountQuery(conditions, params) ==
    [sql |-> <<"SELECT", "COUNT(*)", "FROM", "dianping_car">>
             \o (IF conditions # <<>> THEN <<"WHERE">> \o JoinAnd(conditions) ELSE <<>>),
     params |-> params]

\* lines 618-640
PageQuery(conditions, params, offset) ==
    [sql |-> <<"SELECT", "id", "name", "FROM", "dianping_car">>
             \o (IF conditions # <<>> THEN <<"WHERE">> \o JoinAnd(conditions) ELSE <<>>)
             \o <<"ORDER BY", "id", "LIMIT", "100", "OFFSET", "?">>,
     params |-> params \o <<offset>>]

(***************************************************************************)
(* The relational engine on the queries above: the WHERE clause is read    *)
(* from the SQL text, each ? bound to the next parameter.                  *)
(***************************************************************************)
IndexOf(tokens, t) ==
    IF \E i \in 1..Len(tokens) : tokens[i] = t
    THEN Min({i \in 1..Len(tokens) : tokens[i] = t})
    ELSE 0

\* the tokens of the WHERE clause, <<>> when the query has none
WhereClause(sql) ==
    LET w == IndexOf(sql, "WHERE")
        o == IndexOf(sql, "ORDER BY")
    IN  IF w = 0 THEN <<>>
        ELSE SubSeq(sql, w + 1, IF o = 0 THEN Len(sql) ELSE o - 1)

\* the tests of a WHERE clause: a sequence of [col, vals], a row passing when
\* row[col] is in vals, for every test
RECURSIVE ParseWhere(_, _, _, _)
ParseWhere(tokens, i, params, p) ==
    IF i > Len(tokens) THEN <<>>
    ELSE IF tokens[i] = "AND" THEN ParseWhere(tokens, i + 1, params, p)
    ELSE IF tokens[i + 1] = "="
    THEN <<[col |-> tokens[i],
            vals |-> IF tokens[i + 2] = "?" THEN {params[p]} ELSE {tokens[i + 2]}]>>
         \o ParseWhere(tokens, i + 3, params, IF tokens[i + 2] = "?" THEN p + 1 ELSE p)
    ELSE \* col IN ( ? , ? ... )
         LET close == Min({j \in i..Len(tokens) : tokens[j] = ")"})
             n == Cardinality({j \in i..close : tokens[j] = "?"})
         IN  <<[col |-> tokens[i], vals |-> {params[k] : k \in p..(p + n - 1)}]>>
             \o ParseWhere(tokens, close + 1, params, p + n)

Matching(q) ==
    LET tests == ParseWhere(WhereClause(q.sql), 1, q.params, 1)
        Passes(row) == \A t \in 1..Len(tests) : row[tests[t].col] \in tests[t].vals
    IN  SelectSeq(dianping_car_by_id, Passes)

\* SELECT COUNT(*) ...
ExecuteCount(q) == Len(Matching(q))

\* SELECT ... ORDER BY id LIMIT 100 OFFSET ?  (the offset is the last parameter)
ExecutePage(q) ==
    LET rows == Matching(q)
        offset == q.params[Len(q.params)]
        upto == IF offset + PageSize < Len(rows) THEN offset + PageSize ELSE Len(rows)
    IN  SubSeq(rows, offset + 1, upto)

(***************************************************************************)
(* One run of the script, lines 300-680                                    *)
(***************************************************************************)
NoSession ==
    [has_search |-> FALSE, search_conditions |-> <<>>, search_params |-> <<>>,
     has_page |-> FALSE, current_page |-> 1]

\* total_pages = (total_records + 99) // 100
TotalPages(total) == (total + 99) \div 100

\* a variant of PageOffset that does not subtract one from the page number
PageOffsetFromOne(current_page) == current_page * 100

\* offset = (current_page - 1) * 100
PageOffset(current_page) == (current_page - 1) * 100

\* st.session_state.get('current_page', 1)
CurrentPage(st) == IF st.has_page THEN st.current_page ELSE 1

\* a variant of SearchState that confirms the selection whenever all three
\* filters are selected, without looking at the button
SearchStateWithoutClick(st, city, cats, dists, clicked) ==
    LET all_filters_selected == city # "" /\ cats # <<>> /\ dists # <<>>
    IN  IF all_filters_selected
        THEN [has_search |-> TRUE,
              search_conditions |-> <<CityCondition(city), InCondition("sanlei", cats),
                                      InCondition("qu", dists)>>,
              search_params |-> <<city>> \o cats \o dists,
              has_page |-> TRUE, current_page |-> 1]
        ELSE IF ~st.has_search
        THEN [st EXCEPT !.has_search = TRUE, !.search_conditions = <<>>,
                        !.search_params = <<>>]
        ELSE st

\* lines 337-364: the confirmed search after this run
SearchState(st, city, cats, dists, clicked) ==
    LET all_filters_selected == city # "" /\ cats # <<>> /\ dists # <<>>
    IN  IF clicked /\ all_filters_selected
        THEN [has_search |-> TRUE,
              search_conditions |-> <<CityCondition(city), InCondition("sanlei", cats),
                                      InCondition("qu", dists)>>,
              search_params |-> <<city>> \o cats \o dists,
              has_page |-> TRUE, current_page |-> 1]
        ELSE IF ~st.has_search
        THEN [st EXCEPT !.has_search = TRUE, !.search_conditions = <<>>,
                        !.search_params = <<>>]
        ELSE st

\* the whole script for the given widget values; st is the session state at
\* the start of the run
Script(st, city, cats, dists, clicked) ==
    LET st1 == SearchState(st, city, cats, dists, clicked)
        conditions == st1.search_conditions
        params == st1.search_params
        has_confirmed_search == conditions # <<>>
        cq == CountQuery(conditions, params)
        total == ExecuteCount(cq)
        pages == TotalPages(total)
        current_page == CurrentPage(st1)
        offset == PageOffset(current_page)
        pq == PageQuery(conditions, params, offset)
    IN  [session_state |-> st1,
         viz_query |-> IF has_confirmed_search THEN VizQuery(conditions, params)
                       ELSE NoQuery,
         count_query |-> cq,
         page_query |-> pq.sql,
         page_params |-> pq.params,
         total_records |-> total,
         total_pages |-> pages,
         df |-> ExecutePage(pq),
         \* st.number_input(min_value=1, max_value=total_pages, value=current_page)
         page_input_error |-> current_page > pages]

Show(run, city, cats, dists, clicked) ==
    /\ selected_city' = city
    /\ selected_categories' = cats
    /\ selected_districts' = dists
    /\ search_clicked' = clicked
    /\ session_state' = run.session_state
    /\ viz_query' = run.viz_query
    /\ count_query' = run.count_query
    /\ page_query' = run.page_query
    /\ page_params' = run.page_params
    /\ total_records' = run.total_records
    /\ total_pages' = run.total_pages
    /\ df' = run.df
    /\ page_input_error' = run.page_input_error
    /\ UNCHANGED <<priceVars, locVars, schemaVars, loadVars>>

AppIdle ==
    /\ selected_city = ""
    /\ selected_categories = <<>>
    /\ selected_districts = <<>>
    /\ search_clicked = FALSE
    /\ session_state = NoSession
    /\ viz_query = NoQuery
    /\ count_query = NoQuery
    /\ page_query = <<>>
    /\ page_params = <<>>
    /\ total_records = 0
    /\ total_pages = 0
    /\ df = <<>>
    /\ page_input_error = FALSE

\* a new session: nothing has run yet
AppInit == AppIdle

\* the first run of a session: every widget has its default value
OpenPage ==
    /\ ~session_state.has_search
    /\ Show(Script(session_state, "", <<>>, <<>>, FALSE), "", <<>>, <<>>, FALSE)

\* the user changes one filter widget; the script reruns without a click
ChangeFilters ==
    /\ session_state.has_search
    /\ \E city \in {""} \cup cities :
       \E cats \in Selections(categories) :
       \E dists \in Selections(IF city = "" THEN {} ELSE get_districts_for_city(city)) :
          \* each run follows the change of one widget; a changed city gives a
          \* new district widget, which starts empty
          /\ \/ /\ city # selected_city
                /\ cats = selected_categories
                /\ dists = <<>>
             \/ /\ city = selected_city
                /\ cats # selected_categories
                /\ dists = selected_districts
             \/ /\ city = selected_city
                /\ cats = selected_categories
                /\ dists # selected_districts
          /\ Show(Script(session_state, city, cats, dists, FALSE),
                  city, cats, dists, FALSE)

\* the user clicks the search button, which is enabled only when all three
\* filters are selected
ClickSearch ==
    /\ session_state.has_search
    /\ selected_city # "" /\ selected_categories # <<>> /\ selected_districts # <<>>
    /\ Show(Script(session_state, selected_city, selected_categories,
                   selected_districts, TRUE),
            selected_city, selected_categories, selected_districts, TRUE)

\* the user enters another page number: the run stores it (lines 674-680) and
\* st.rerun() runs the script again
JumpToPage ==
    /\ session_state.has_search
    /\ ~page_input_error
    /\ \E new_page \in 1..total_pages :
          LET first == Script(session_state, selected_city, selected_categories,
                              selected_districts, FALSE)
              stored == [first.session_state EXCEPT !.has_page = TRUE,
                                                    !.current_page = new_page]
          IN  /\ new_page # CurrentPage(first.session_state)
              /\ Show(Script(stored, selected_city, selected_categories,
                             selected_districts, FALSE),
                      selected_city, selected_categories, selected_districts, FALSE)

(***************************************************************************)
(* Specifications                                                          *)
(***************************************************************************)
InitPrice == PriceInit /\ LocIdle /\ SchemaIdle /\ LoadIdle /\ AppIdle
SpecPrice == InitPrice /\ [][CleanPriceColumn]_vars

InitLoc == PriceIdle /\ LocInit /\ SchemaIdle /\ LoadIdle /\ AppIdle
SpecLoc == InitLoc /\ [][ParseLocationColumn]_vars

InitSchema == PriceIdle /\ LocIdle /\ SchemaInit /\ LoadIdle /\ AppIdle
SpecSchema == InitSchema /\ [][CreateTableColumn]_vars

InitLoad == PriceIdle /\ LocIdle /\ SchemaIdle /\ LoadInit /\ AppIdle
LoadNext == ListFiles \/ LoadFile \/ FinishLoad
SpecLoad == InitLoad /\ [][LoadNext]_vars

InitApp == PriceIdle /\ LocIdle /\ SchemaIdle /\ LoadIdle /\ AppInit
AppNext == OpenPage \/ ChangeFilters \/ ClickSearch \/ JumpToPage
SpecApp == InitApp /\ [][AppNext]_vars

(***************************************************************************)
(* Properties of clean_price                                               *)
(***************************************************************************)
RECURSIVE Pow10(_)
Pow10(n) == IF n = 0 THEN 1 ELSE 10 * Pow10(n - 1)

\* the decimal value of the digits s[a..b]
RECURSIVE DecimalValue(_, _, _)
DecimalValue(s, a, b) ==
    IF a > b THEN 0
    ELSE DigitVal(s[a]) * Pow10(b - a) + DecimalValue(s, a + 1, b)

\* s[a..b] is a maximal run of digits
MaximalRun(s, a, b) ==
    /\ a <= b
    /\ \A k \in a..b : IsDigit(s[k])
    /\ b = Len(s) \/ ~IsDigit(s[b + 1])
    /\ a = 1 \/ ~IsDigit(s[a - 1])

ColonNumberAt(s, i) == i < Len(s) /\ s[i] = ":" /\ IsDigit(s[i + 1])

\* C1: a price string holding a colon immediately followed by digits is cleaned
\* to the integer value of the digits after the (leftmost such) colon, also when
\* another digit run occurs earlier in the string.
C1_ColonNumberWins ==
    (price_done /\ raw_price.kind = "str") =>
        \A i \in 1..Len(raw_price.chars) :
            (/\ ColonNumberAt(raw_price.chars, i)
             /\ \A h \in 1..(i - 1) : ~ColonNumberAt(raw_price.chars, h))
            => \E j \in (i + 1)..Len(raw_price.chars) :
                  /\ \A k \in (i + 1)..j : IsDigit(raw_price.chars[k])
                  /\ j = Len(raw_price.chars) \/ ~IsDigit(raw_price.chars[j + 1])
                  /\ price = IntV(DecimalValue(raw_price.chars, i + 1, j))

\* a string with a digit run before the colon pattern, whose two candidate
\* numbers differ, has been cleaned to the number after the colon
C1_Witness ==
    /\ price_done
    /\ raw_price.kind = "str"
    /\ \E i \in 2..Len(raw_price.chars) :
          /\ ColonNumberAt(raw_price.chars, i)
          /\ \E h \in 1..(i - 1) : IsDigit(raw_price.chars[h])
    /\ price.kind = "int"
    /\ price # IntV(int(FirstNumber(raw_price.chars)))

\* C2: a price string without a colon is cleaned to the value of its leftmost
\* maximal digit run, or to null when it has no digit; a null price stays null.
C2_FirstDigitRun ==
    price_done =>
        /\ isna(raw_price) => price = Null
        /\ (raw_price.kind = "str"
                /\ \A i \in 1..Len(raw_price.chars) : raw_price.chars[i] # ":")
            => /\ (\A i \in 1..Len(raw_price.chars) : ~IsDigit(raw_price.chars[i]))
                    => price = Null
               /\ \A a \in 1..Len(raw_price.chars) : \A b \in a..Len(raw_price.chars) :
                    (/\ MaximalRun(raw_price.chars, a, b)
                     /\ \A h \in 1..(a - 1) : ~IsDigit(raw_price.chars[h]))
                    => price = IntV(DecimalValue(raw_price.chars, a, b))

\* a colon-free string with two digit runs, the first of them longer than one
\* digit, has been cleaned
C2_Witness ==
    /\ price_done
    /\ raw_price.kind = "str"
    /\ \A i \in 1..Len(raw_price.chars) : raw_price.chars[i] # ":"
    /\ \E a \in 1..Len(raw_price.chars) : \E b \in (a + 1)..Len(raw_price.chars) :
          /\ MaximalRun(raw_price.chars, a, b)
          /\ \E h \in (b + 2)..Len(raw_price.chars) : IsDigit(raw_price.chars[h])
          /\ price = IntV(DecimalValue(raw_price.chars, a, b))
          /\ price.val >= 10

(***************************************************************************)
(* Properties of parse_location_type                                       *)
(***************************************************************************)
\* some keyword of the list occurs in s when letter case is ignored
HasUndergroundKeyword(s) ==
    \E k \in 1..Len(underground_keywords) :
        \E i \in 1..Len(s) :
            /\ i + Len(underground_keywords[k]) - 1 <= Len(s)
            /\ \A j \in 1..Len(underground_keywords[k]) :
                  LowerChar(s[i + j - 1]) = underground_keywords[k][j]

\* C4: the location type is null for a null address, "underground" for an
\* address containing an underground keyword in any letter case, "above ground"
\* for every other address; so it is null only when the address is null.
C4_LocationTypeTotal ==
    loc_done =>
        /\ address.kind = "absent" => loc_type.kind = "absent"
        /\ isna(address) => loc_type = Null
        /\ address.kind = "str" =>
              /\ HasUndergroundKeyword(address.chars) => loc_type = Underground
              /\ ~HasUndergroundKeyword(address.chars) => loc_type = AboveGround
        /\ loc_type.kind = "null" => isna(address)

\* an address with an upper-case basement code has been classified underground
C4_Witness ==
    /\ loc_done
    /\ address.kind = "str"
    /\ \E i \in 1..Len(address.chars) : address.chars[i] = "B"
    /\ ~Contains(address.chars, <<"b", "1">>)
    /\ ~Contains(address.chars, <<"di", "xia">>)
    /\ ~Contains(address.chars, <<"fu", "yi1">>)
    /\ ~Contains(address.chars, <<"fu", "1">>)
    /\ loc_type = Underground

(***************************************************************************)
(* Properties of init_database                                             *)
(***************************************************************************)
\* C3: every price of the loaded table is null or a non-negative integer.
C3_PriceNullOrNonNegativeInt ==
    table.created =>
        \A i \in 1..Len(table.frame.rows) :
            \/ table.frame.rows[i].price.kind \in {"null", "nan", "absent"}
            \/ /\ table.frame.rows[i].price.kind = "int"
               /\ table.frame.rows[i].price.val >= 0

\* number of rows of the first k loaded files
RECURSIVE RowsBefore(_)
RowsBefore(k) == IF k = 0 THEN 0 ELSE RowsBefore(k - 1) + Len(sources[k].raw.rows)

\* position of a file name in csv_files
PositionOf(f) == CHOOSE i \in 1..Len(csv_files) : csv_files[i] = f

\* C5: the table holds the cleaned rows of exactly the loaded files, file after
\* file in processing order and row after row in file order: its row count is
\* the sum of the files' row counts and no row is dropped, merged or moved.
C5_TableIsConcatenation ==
    table.created =>
        /\ Len(table.frame.rows) = RowsBefore(Len(sources))
        /\ Len(sources) = Len(all_data)
        /\ \A k \in 1..Len(sources) :
              /\ \E i \in 1..Len(csv_files) : csv_files[i] = sources[k].file
              /\ k > 1 => PositionOf(sources[k - 1].file) < PositionOf(sources[k].file)
              /\ \A r \in 1..Len(sources[k].raw.rows) :
                    LET row == table.frame.rows[RowsBefore(k - 1) + r]
                        src == sources[k].raw
                    IN  /\ src.has_price => row.price = clean_price(src.rows[r].price)
                        /\ ~src.has_price => row.price.kind \in {"nan", "absent"}
                        /\ src.has_address =>
                              /\ row.address = src.rows[r].address
                              /\ row.loc_type = parse_location_type(src.rows[r].address)
                        /\ ~src.has_address =>
                              /\ row.address.kind \in {"nan", "absent"}
                              /\ row.loc_type.kind \in {"nan", "absent"}

\* two loaded files with the same two different rows: the table has all four
C5_Witness ==
    /\ table.created
    /\ Len(sources) = 2
    /\ sources[1].raw = sources[2].raw
    /\ sources[1].raw.has_price /\ sources[1].raw.has_address
    /\ Len(sources[1].raw.rows) = 2
    /\ sources[1].raw.rows[1] # sources[1].raw.rows[2]
    /\ Len(table.frame.rows) = 4

\* the name ends in the four characters ".csv"
IsCsvName(f) ==
    /\ Len(f) >= 4
    /\ f[Len(f) - 3] = "." /\ f[Len(f) - 2] = "c" /\ f[Len(f) - 1] = "s" /\ f[Len(f)] = "v"

LoadOver == load_pc \in {"returned", "raised"}

\* C6: init_database raises, returns no connection and has written no table
\* when the directory is missing, when no name in it ends in .csv, and when
\* every eligible file failed to load.
C6_FatalWithoutData ==
    /\ (load_pc # "list" /\ ~directory.exists) => load_pc = "raised"
    /\ (load_pc # "list"
            /\ \A i \in 1..Len(directory.names) : ~IsCsvName(directory.names[i]))
        => load_pc = "raised"
    /\ (LoadOver /\ sources = <<>>) => load_pc = "raised"
    /\ load_pc = "raised" => conn = "none"
    /\ (load_pc = "raised" /\ error \in {"FileNotFoundError", "ValueError"})
        => ~table.created

\* two eligible files, both failed (the last one after two reads): ValueError
C6_Witness ==
    /\ load_pc = "raised"
    /\ error = "ValueError"
    /\ Len(csv_files) = 2
    /\ Len(last.reads) = 2
    /\ conn = "none"

\* C7: processing a file never raises out of the loop; a file is read with
\* utf-8, and with gbk exactly when utf-8 raised UnicodeDecodeError; a file whose
\* last read failed or whose cleaning raised adds nothing, any other file adds
\* its cleaned frame after the frames already loaded, and the loop goes on.
C7_FileFailureIsLocal ==
    [][(load_pc = "loop" /\ idx <= Len(csv_files)) =>
        /\ load_pc' = "loop" /\ error' = error /\ idx' = idx + 1
        /\ last'.file = csv_files[idx]
        /\ Len(last'.reads) \in {1, 2}
        /\ last'.reads[1].encoding = "utf-8"
        /\ Len(last'.reads) = 2 <=> last'.reads[1].outcome = "UnicodeDecodeError"
        /\ Len(last'.reads) = 2 => last'.reads[2].encoding = "gbk"
        /\ last'.loaded <=>
              (last'.reads[Len(last'.reads)].outcome = "ok" /\ ~last'.clean_error)
        /\ IF last'.loaded
           THEN /\ Len(all_data') = Len(all_data) + 1
                /\ SubSeq(all_data', 1, Len(all_data)) = all_data
                /\ Len(all_data'[Len(all_data')].rows)
                       = Len(sources'[Len(sources')].raw.rows)
           ELSE all_data' = all_data
      ]_vars

\* the first file failed, the second was loaded by the gbk retry
C7_Witness ==
    /\ Len(csv_files) = 2
    /\ idx = 3
    /\ Len(all_data) = 1
    /\ sources[1].file = csv_files[2]
    /\ Len(last.reads) = 2
    /\ last.loaded
    /\ Len(all_data[1].rows) = 2

(***************************************************************************)
(* Property of the created table                                           *)
(***************************************************************************)
\* C9: the type of a column in the created table is the one get_mysql_type
\* returns for it.
C9_TableUsesInferredSchema ==
    table_type # "" => table_type = get_mysql_type(column.name, column.dtype)

(***************************************************************************)
(* Properties of the query layer                                           *)
(***************************************************************************)
Count(tokens, t) == Cardinality({i \in 1..Len(tokens) : tokens[i] = t})

\* every value a user can select
UserValues == cities \cup categories \cup UNION {get_districts_for_city(c) : c \in cities}

\* the queries of the last run, each with the parameters passed with it
QueriesRun ==
    {count_query, [sql |-> page_query, params |-> page_params]}
    \cup (IF viz_query = NoQuery THEN {} ELSE {viz_query})

\* C8: every filter query carries the selected values as bind parameters only:
\* its WHERE clause is one equality and two IN fragments joined by AND, no
\* selected value occurs in the text, and the text has as many ? as the
\* parameter list has entries (the OFFSET parameter of the page query included).
C8_ValuesOnlyAsParameters ==
    session_state.has_search =>
        /\ \A q \in QueriesRun :
              /\ Count(q.sql, "?") = Len(q.params)
              /\ \A i \in 1..Len(q.sql) : q.sql[i] \notin UserValues
              /\ IF session_state.search_conditions = <<>>
                 THEN Count(q.sql, "WHERE") = 0
                 ELSE /\ Count(q.sql, "WHERE") = 1
                      /\ Count(WhereClause(q.sql), "=") = 1
                      /\ Count(WhereClause(q.sql), "IN") = 2
                      /\ Count(WhereClause(q.sql), "AND") = 2
                      /\ Count(WhereClause(q.sql), "?") = Len(session_state.search_params)
        /\ count_query.params = session_state.search_params
        /\ Len(page_params) = Len(session_state.search_params) + 1
        /\ viz_query # NoQuery => viz_query.params = session_state.search_params
        /\ viz_query # NoQuery <=> session_state.search_conditions # <<>>

\* a confirmed search with two categories and two districts, shown on page 2
C8_Witness ==
    /\ Len(session_state.search_params) = 5
    /\ viz_query # NoQuery
    /\ Count(viz_query.sql, "?") = 5
    /\ Count(page_query, "?") = 6
    /\ page_params[6] = 100

\* The rows matching the confirmed search.  The values of the three columns are
\* disjoint, so a row passes the two IN tests when its category and its district
\* are among the parameters.
Confirmed(row) ==
    session_state.search_conditions # <<>> =>
        /\ row.shi = session_state.search_params[1]
        /\ row.sanlei \in Range(session_state.search_params)
        /\ row.qu \in Range(session_state.search_params)

ConfirmedRows == {dianping_car[i] : i \in {r \in 1..TableSize : Confirmed(dianping_car[r])}}

\* C10: with N rows matching the confirmed search, total_pages = ceil(N / 100);
\* page p of 1..total_pages shows the rows at positions (p-1)*100+1 ..
\* min(p*100, N) of the id-ordered result (ids are distinct), 100 of them unless
\* p is the last page; every position of the result lies on exactly one page;
\* the count query and the page query have the same WHERE clause and parameters.
C10_PagesPartitionResult ==
    session_state.has_search =>
        LET rows == ConfirmedRows
            N == Cardinality(rows)
            p == CurrentPage(session_state)
        IN  /\ total_records = N
            /\ total_pages * 100 >= N
            /\ total_pages >= 0
            /\ total_pages > 0 => (total_pages - 1) * 100 < N
            /\ WhereClause(page_query) = WhereClause(count_query.sql)
            /\ page_params = count_query.params \o <<(p - 1) * 100>>
            /\ \A r \in 1..N :
                  Cardinality({q \in 1..total_pages :
                      (q - 1) * 100 < r /\ r <= q * 100}) = 1
            /\ (1 <= p /\ p <= total_pages) =>
                  /\ Len(df) = (IF p * 100 < N THEN p * 100 ELSE N) - (p - 1) * 100
                  /\ p < total_pages => Len(df) = 100
                  \* df is the block of the id-ordered result that starts after
                  \* (p-1)*100 rows: matching rows, ascending, none skipped
                  /\ \A k \in 1..Len(df) : df[k] \in rows
                  /\ \A k \in 1..(Len(df) - 1) : df[k].id < df[k + 1].id
                  /\ Len(df) > 0 =>
                        /\ Cardinality({r \in rows : r.id < df[1].id}) = (p - 1) * 100
                        /\ Cardinality({r \in rows : df[1].id <= r.id
                                                      /\ r.id <= df[Len(df)].id})
                              = Len(df)

\* the last, partly filled page of a confirmed search with three pages
C10_Witness ==
    /\ session_state.search_conditions # <<>>
    /\ total_pages = 3
    /\ CurrentPage(session_state) = 3
    /\ Len(df) > 0
    /\ Len(df) < 100

(***************************************************************************)
(* Properties of the session                                               *)
(***************************************************************************)
AllFiltersSelected ==
    selected_city # "" /\ selected_categories # <<>> /\ selected_districts # <<>>

\* the text of the three fragments for a selection, written token by token
ThreeFragments(cats, dists) ==
    << <<"shi", "=", "?">>,
       <<"sanlei", "IN", "(">>
           \o [i \in 1..(2 * Len(cats) - 1) |-> IF i % 2 = 1 THEN "?" ELSE ","]
           \o <<")">>,
       <<"qu", "IN", "(">>
           \o [i \in 1..(2 * Len(dists) - 1) |-> IF i % 2 = 1 THEN "?" ELSE ","]
           \o <<")">> >>

\* C11: the confirmed conditions and parameters change only in a run where the
\* search button was clicked with city, categories and districts all selected;
\* that run replaces them by the three fragments and the values of the current
\* selection and sets the current page to 1.  Every other run leaves them as
\* they were, and they are always empty or the complete three fragments.
C11_SearchChangesOnlyOnClick ==
    /\ [](\/ /\ session_state.search_conditions = <<>>
              /\ session_state.search_params = <<>>
           \/ /\ Len(session_state.search_conditions) = 3
              /\ Len(session_state.search_params) >= 3)
    /\ [][IF search_clicked' /\ AllFiltersSelected'
          THEN /\ session_state'.search_conditions
                     = ThreeFragments(selected_categories', selected_districts')
               /\ session_state'.search_params
                     = <<selected_city'>> \o selected_categories' \o selected_districts'
               /\ session_state'.has_page
               /\ session_state'.current_page = 1
          ELSE /\ session_state'.search_conditions = session_state.search_conditions
               /\ session_state'.search_params = session_state.search_params
         ]_vars

\* a run after a widget change: the confirmed search of another city is kept,
\* shown on its second page, while all three filters are selected again
C11_Witness ==
    /\ ~search_clicked
    /\ AllFiltersSelected
    /\ Len(session_state.search_conditions) = 3
    /\ session_state.search_params[1] # selected_city
    /\ CurrentPage(session_state) = 2

\* C12: after every run the current page lies in 1..total_pages.
C12_PageInRange ==
    session_state.has_search =>
        /\ 1 <= CurrentPage(session_state)
        /\ CurrentPage(session_state) <= total_pages

\* C13: init_database returns a connection with table dianping_car whenever at
\* least one eligible file was loaded.
C13_ReturnsWhenAnyFileLoads ==
    (LoadOver /\ sources # <<>>) =>
        /\ load_pc = "returned"
        /\ conn = "conn"
        /\ table.created

====
